---- MODULE Spec2Model ----
(***************************************************************************)
(* TipitakaAi: the model lifecycle controller (ModelManager), the RAG      *)
(* query engine (RAGEngine), the services that hold models, the vector     *)
(* store (DatabaseService) and the DocumentProcessor, modelled as state    *)
(* machines.  Every async method is split at its await points: one action  *)
(* per synchronous run.                                                    *)
(***************************************************************************)
EXTENDS Integers, Sequences, FiniteSets, Bags, TLC

\* ------------------------------------------------------------------------
\* Bounds
\* ------------------------------------------------------------------------
MaxModels == 3
MaxCalls == 2
MaxChunks == 3
MaxQueries == 2
MaxDocs == 2
MaxDocChunks == 2

\* ------------------------------------------------------------------------
\* ModelManager: configuration
\* ------------------------------------------------------------------------
\* ensureMemoryAvailable: const maxRAM = 4096
maxRAM == 4096

\* ModelInfo.ramRequiredMB: the catalog is configuration; its costs are
\* drawn from these so that a load can exceed maxRAM.
RamChoices == {1500, 3000}

\* the first MaxModels entries of MODELS_CONFIG, in Map (insertion) order
Models == 1..MaxModels

\* ModelInfo.type of the entries of MODELS_CONFIG: llama-3.2-1b-thai,
\* whisper-small-thai, whisper-tiny-thai, vits-thai-female, vits-thai-male-monk
ModelType(m) == IF m = 1 THEN "llm" ELSE IF m <= 3 THEN "asr" ELSE "tts"

\* An id that MODELS_CONFIG does not hold.
UnknownModel == 0

VARIABLES
  ramRequiredMB,  \* ModelInfo.ramRequiredMB per model
  downloaded,     \* ModelInfo.downloaded per model
  loaded,         \* ModelInfo.loaded per model
  loadedModels,   \* ModelManager.loadedModels (keys of the Map)
  calls,          \* the ModelManager calls suspended at an await (a bag)
  recency,        \* history: the loaded models, least recently loaded first
  seq             \* history: the last call entered while no other call was in flight

mmVars == <<ramRequiredMB, downloaded, loaded, loadedModels, calls, recency, seq>>

NoneLoaded == [m \in Models |-> FALSE]

NoSeq == [mode |-> "none", op |-> "none", m |-> 0, pre |-> NoneLoaded, res |-> "none"]

RECURSIVE SumRAM(_, _)
SumRAM(S, ram) ==
  IF S = {} THEN 0
  ELSE LET m == CHOOSE x \in S : TRUE
       IN ram[m] + SumRAM(S \ {m}, ram)

\* getLoadedModelsRAM(): sum of ramRequiredMB over the models marked loaded
getLoadedModelsRAM(ld) == SumRAM({m \in Models : ld[m]}, ramRequiredMB)

\* the loop's condition without the test on the type
EvictableAny(ld, m) == ld[m]

\* evictModels: the loop's condition on a catalog entry
Evictable(ld, m) == ld[m] /\ ModelType(m) # "llm"

\* evictModels: the next entry of the Map, at or after `from`, that the loop unloads
NextEvictable(ld, from) ==
  IF \E i \in from..MaxModels : Evictable(ld, i)
  THEN CHOOSE i \in from..MaxModels :
         Evictable(ld, i) /\ \A j \in from..(i - 1) : ~Evictable(ld, j)
  ELSE 0

InFlight == BagToSet(calls)
Suspend(r) == calls (+) SetToBag({r})
Resume(r) == calls (-) SetToBag({r})

Remove(s, m) == SelectSeq(s, LAMBDA x : x # m)

\* history bookkeeping: a call is entered and suspends at an await
Enter(op, m) ==
  seq' = IF calls = EmptyBag
         THEN [mode |-> "running", op |-> op, m |-> m, pre |-> loaded, res |-> "none"]
         ELSE NoSeq

\* history bookkeeping: a call is entered and returns or throws at once
EnterReturn(op, m, res) ==
  seq' = IF calls = EmptyBag
         THEN [mode |-> "done", op |-> op, m |-> m, pre |-> loaded, res |-> res]
         ELSE NoSeq

\* history bookkeeping: a suspended call returns
Return(res) ==
  seq' = IF seq.mode = "running"
         THEN [seq EXCEPT !.mode = "done", !.res = res]
         ELSE seq

MMInit ==
  /\ ramRequiredMB \in [Models -> RamChoices]
  /\ downloaded = [m \in Models |-> FALSE]
  /\ loaded = NoneLoaded
  /\ loadedModels = {}
  /\ calls = EmptyBag
  /\ recency = << >>
  /\ seq = NoSeq

\* ------------------------------------------------------------------------
\* ModelManager: operations
\* ------------------------------------------------------------------------

\* downloadModel: the write after the awaited download (status 200 or not)
downloadModel(m, status) ==
  /\ m \in Models
  /\ IF status = 200
     THEN downloaded' = [downloaded EXCEPT ![m] = TRUE]
     ELSE UNCHANGED downloaded
  /\ UNCHANGED <<ramRequiredMB, loaded, loadedModels, calls, recency, seq>>

\* the continuation of loadModel after `await this.ensureMemoryAvailable(...)`
AtLoad(m) == [op |-> "load", m |-> m, pc |-> "load", it |-> 0, freed |-> 0, requiredMB |-> 0]

\* evictModels: the loop from entry `from` on, run to its next await (the
\* awaited unloadModel) or to its end; `rest` is the bag of the other calls
EvictLoop(rest, m, from, freed, requiredMB) ==
  LET i == NextEvictable(loaded, from)
  IN IF freed >= requiredMB \/ i = 0
     THEN /\ calls' = rest (+) SetToBag({AtLoad(m)})
          /\ UNCHANGED <<loaded, loadedModels, recency>>
     ELSE /\ loaded' = [loaded EXCEPT ![i] = FALSE]
          /\ loadedModels' = loadedModels \ {i}
          /\ recency' = Remove(recency, i)
          /\ calls' = rest (+) SetToBag({[op |-> "load", m |-> m, pc |-> "evict",
                 it |-> i, freed |-> freed, requiredMB |-> requiredMB]})

\* ensureMemoryAvailable that never evicts
ensureMemoryAvailableNoEvict(m, requiredMB) ==
  /\ calls' = Suspend(AtLoad(m))
  /\ UNCHANGED <<loaded, loadedModels, recency>>

\* ensureMemoryAvailable, up to its first await
ensureMemoryAvailable(m, requiredMB) ==
  LET currentlyUsed == getLoadedModelsRAM(loaded)
      available == maxRAM - currentlyUsed
  IN IF available < requiredMB
     THEN EvictLoop(calls, m, 1, 0, requiredMB - available)
     ELSE /\ calls' = Suspend(AtLoad(m))
          /\ UNCHANGED <<loaded, loadedModels, recency>>

\* loadModel without the test on `model.downloaded`
loadModelUnchecked(m) ==
  /\ BagCardinality(calls) < MaxCalls
  /\ IF m \notin Models
     THEN /\ EnterReturn("load", m, "NotFound")
          /\ UNCHANGED <<loaded, loadedModels, recency, calls>>
     ELSE IF loaded[m] /\ m \in loadedModels
     THEN /\ EnterReturn("load", m, "ok")
          /\ UNCHANGED <<loaded, loadedModels, recency, calls>>
     ELSE /\ Enter("load", m)
          /\ ensureMemoryAvailable(m, ramRequiredMB[m])
  /\ UNCHANGED <<ramRequiredMB, downloaded>>

\* loadModel: entry, up to the first await
loadModel(m) ==
  /\ BagCardinality(calls) < MaxCalls
  /\ IF m \notin Models
     THEN /\ EnterReturn("load", m, "NotFound")
          /\ UNCHANGED <<loaded, loadedModels, recency, calls>>
     ELSE IF ~downloaded[m]
     THEN /\ EnterReturn("load", m, "NotDownloaded")
          /\ UNCHANGED <<loaded, loadedModels, recency, calls>>
     ELSE IF loaded[m] /\ m \in loadedModels
     THEN /\ EnterReturn("load", m, "ok")
          /\ UNCHANGED <<loaded, loadedModels, recency, calls>>
     ELSE /\ Enter("load", m)
          /\ ensureMemoryAvailable(m, ramRequiredMB[m])
  /\ UNCHANGED <<ramRequiredMB, downloaded>>

\* evictModels: resumption after an awaited unloadModel
evictModels(r) ==
  /\ r \in InFlight
  /\ r.pc = "evict"
  /\ EvictLoop(Resume(r), r.m, r.it + 1, r.freed + ramRequiredMB[r.it], r.requiredMB)
  /\ UNCHANGED <<ramRequiredMB, downloaded, seq>>

\* loadModel: resumption after ensureMemoryAvailable
loadModelResume(r) ==
  /\ r \in InFlight
  /\ r.pc = "load"
  /\ loaded' = [loaded EXCEPT ![r.m] = TRUE]
  /\ recency' = Append(Remove(recency, r.m), r.m)
  /\ calls' = Resume(r)
  /\ Return("ok")
  /\ UNCHANGED <<ramRequiredMB, downloaded, loadedModels>>

\* unloadModel: no await inside, one synchronous run
unloadModel(m) ==
  /\ BagCardinality(calls) < MaxCalls
  /\ EnterReturn("unload", m, "ok")
  /\ IF m \notin Models
     THEN UNCHANGED <<loaded, loadedModels, recency>>
     ELSE /\ loaded' = [loaded EXCEPT ![m] = FALSE]
          /\ loadedModels' = loadedModels \ {m}
          /\ recency' = Remove(recency, m)
  /\ UNCHANGED <<ramRequiredMB, downloaded, calls>>

\* deleteModel: entry, up to the first await (unloads the model if loaded)
deleteModel(m) ==
  /\ BagCardinality(calls) < MaxCalls
  /\ IF m \notin Models
     THEN /\ EnterReturn("delete", m, "NotFound")
          /\ UNCHANGED <<loaded, loadedModels, recency, calls>>
     ELSE /\ Enter("delete", m)
          /\ IF loaded[m]
             THEN /\ loaded' = [loaded EXCEPT ![m] = FALSE]
                  /\ loadedModels' = loadedModels \ {m}
                  /\ recency' = Remove(recency, m)
             ELSE UNCHANGED <<loaded, loadedModels, recency>>
          /\ calls' = Suspend([op |-> "delete", m |-> m, pc |-> "delete",
                               it |-> 0, freed |-> 0, requiredMB |-> 0])
  /\ UNCHANGED <<ramRequiredMB, downloaded>>

\* deleteModel: resumption after the awaited file operations
deleteModelResume(r) ==
  /\ r \in InFlight
  /\ r.pc = "delete"
  /\ downloaded' = [downloaded EXCEPT ![r.m] = FALSE]
  /\ calls' = Resume(r)
  /\ Return("ok")
  /\ UNCHANGED <<ramRequiredMB, loaded, loadedModels, recency>>

\* ------------------------------------------------------------------------
\* RAGEngine: configuration and the stored corpus
\* ------------------------------------------------------------------------
DEFAULT_TOP_K == 5
\* DEFAULT_THRESHOLD = 0.6; scores and thresholds are in hundredths
DEFAULT_THRESHOLD == 60
MAX_CONTEXT_TOKENS == 2048

\* rows of the chunks table, in row order
Chunks == 1..MaxChunks

\* characters of `title_thai` and `content` of a row, by script
ChunkThaiChars(c) == 800 * (c + 1)
ChunkOtherChars(c) == 20

\* metadata.pitaka and metadata.nikaya of a row
ChunkPitaka(c) == IF c % 2 = 1 THEN "sutta" ELSE "vinaya"
ChunkNikaya(c) == IF c <= 2 THEN "digha" ELSE "majjhima"

\* the scores a query embedding can give a row, and the query's options
\* (0 stands for an option left undefined)
ScoreChoices == {50, 70, 90}
TopKChoices == {0, 1, 2}
ThresholdChoices == {0, 80}
NoFilters == [given |-> FALSE, pitaka |-> {}, nikaya |-> {}]
FilterChoices ==
  {NoFilters,
   [given |-> TRUE, pitaka |-> {"sutta"}, nikaya |-> {}],
   [given |-> TRUE, pitaka |-> {}, nikaya |-> {"digha"}]}

VARIABLES
  ragInitialized,     \* RAGEngine.initialized
  execuTorchIsLoaded, \* ExecuTorchService.isLoaded
  queries,            \* the query() calls suspended at an await (a bag)
  response            \* history: the outcome of the query() call that returned last

ragVars == <<ragInitialized, execuTorchIsLoaded, queries, response>>

\* answer: "generated" is the text execuTorchService.generate returned;
\* met: 1 when a row met the threshold, 0 when none did, -1 when the search
\* was not made
NoResponse ==
  [status |-> "none", sources |-> << >>, context |-> << >>,
   answer |-> "none", confidence |-> 0, met |-> -1]

\* `x || d` on a number
OrDefault(x, d) == IF x = 0 THEN d ELSE x

Min(a, b) == IF a <= b THEN a ELSE b

\* Array.prototype.slice(0, n)
Slice(s, n) == SubSeq(s, 1, Min(n, Len(s)))

\* Array.prototype.sort((a, b) => b.score - a.score) on rows: stable, so
\* equal scores keep their row order
RECURSIVE SortByScore(_, _)
SortByScore(S, score) ==
  IF S = {} THEN << >>
  ELSE LET top == CHOOSE c \in S :
                    \A d \in S : score[c] > score[d] \/ (score[c] = score[d] /\ c <= d)
       IN <<top>> \o SortByScore(S \ {top}, score)

\* vectorSearch without `.slice(0, limit)`
vectorSearchUnsliced(score, limit, threshold) ==
  SortByScore({c \in Chunks : score[c] >= threshold}, score)

\* DatabaseService.vectorSearch; score[c] is 1 - cosineDistance of row c
vectorSearch(score, limit, threshold) ==
  Slice(SortByScore({c \in Chunks : score[c] >= threshold}, score), limit)

\* retrieveChunks without `.slice(0, topK)`
retrieveChunksUntruncated(score, topK, threshold, filters) ==
  LET results == vectorSearch(score, topK * 2, threshold)
      byPitaka == IF filters.given /\ filters.pitaka # {}
                  THEN SelectSeq(results, LAMBDA c : ChunkPitaka(c) \in filters.pitaka)
                  ELSE results
      byNikaya == IF filters.given /\ filters.nikaya # {}
                  THEN SelectSeq(byPitaka, LAMBDA c : ChunkNikaya(c) \in filters.nikaya)
                  ELSE byPitaka
  IN byNikaya

\* RAGEngine.retrieveChunks
retrieveChunks(score, topK, threshold, filters) ==
  LET results == vectorSearch(score, topK * 2, threshold)
      byPitaka == IF filters.given /\ filters.pitaka # {}
                  THEN SelectSeq(results, LAMBDA c : ChunkPitaka(c) \in filters.pitaka)
                  ELSE results
      byNikaya == IF filters.given /\ filters.nikaya # {}
                  THEN SelectSeq(byPitaka, LAMBDA c : ChunkNikaya(c) \in filters.nikaya)
                  ELSE byPitaka
  IN Slice(byNikaya, topK)

\* RAGEngine.estimateTokens: Math.ceil(thaiChars / 2 + otherChars / 4)
estimateTokens(thaiChars, otherChars) == (2 * thaiChars + otherChars + 3) \div 4

\* estimateTokens of `[${title_thai}]\n${content}\n`
ChunkTokens(c) == estimateTokens(ChunkThaiChars(c), ChunkOtherChars(c) + 4)

\* RAGEngine.buildContext: the results whose text the context string holds
RECURSIVE BuildContextFrom(_, _, _)
BuildContextFrom(results, i, currentTokens) ==
  IF i > Len(results) \/ currentTokens + ChunkTokens(results[i]) > MAX_CONTEXT_TOKENS
  THEN << >>
  ELSE <<results[i]>> \o
       BuildContextFrom(results, i + 1, currentTokens + ChunkTokens(results[i]))

buildContext(results) == BuildContextFrom(results, 1, 0)

\* RAGEngine.buildCitations: one Citation per result, in order
buildCitations(results) == results

RECURSIVE SumSeq(_)
SumSeq(s) == IF s = << >> THEN 0 ELSE Head(s) + SumSeq(Tail(s))

\* RAGEngine.calculateConfidence on the scores of the results, in hundredths
\* (rounded down): avgScore * Math.min(results.length / DEFAULT_TOP_K, 1)
calculateConfidence(scores) ==
  IF Len(scores) = 0 THEN 0
  ELSE (SumSeq(scores) * Min(Len(scores), DEFAULT_TOP_K)) \div (Len(scores) * DEFAULT_TOP_K)

RagInit ==
  /\ ragInitialized = FALSE
  /\ execuTorchIsLoaded = FALSE
  /\ queries = EmptyBag
  /\ response = NoResponse

\* ------------------------------------------------------------------------
\* RAGEngine: operations
\* ------------------------------------------------------------------------

\* RAGEngine.initialize: ok is whether databaseService.initialize() and
\* execuTorchService.initialize() both returned
ragInitialize(ok) ==
  /\ ~ragInitialized
  /\ IF ok
     THEN ragInitialized' = TRUE /\ execuTorchIsLoaded' = TRUE
     ELSE UNCHANGED <<ragInitialized, execuTorchIsLoaded>>
  /\ UNCHANGED <<queries, response>>

\* ExecuTorchService.unload
execuTorchUnload ==
  /\ execuTorchIsLoaded' = FALSE
  /\ UNCHANGED <<ragInitialized, queries, response>>

\* query: entry, up to `await this.getQueryEmbedding(...)`
query(topK, threshold, filters) ==
  /\ BagCardinality(queries) < MaxQueries
  /\ IF ~ragInitialized
     THEN /\ response' = [NoResponse EXCEPT !.status = "NotInitialized"]
          /\ UNCHANGED queries
     ELSE /\ queries' = queries (+) SetToBag({[pc |-> "retrieve",
                 topK |-> OrDefault(topK, DEFAULT_TOP_K),
                 threshold |-> OrDefault(threshold, DEFAULT_THRESHOLD),
                 filters |-> filters, results |-> << >>, context |-> << >>,
                 scores |-> << >>, met |-> -1]})
          /\ UNCHANGED response
  /\ UNCHANGED <<ragInitialized, execuTorchIsLoaded>>

\* query: retrieveChunks with the embedding that getQueryEmbedding returned
queryRetrieve(q, score) ==
  /\ q \in BagToSet(queries)
  /\ q.pc = "retrieve"
  /\ LET results == retrieveChunks(score, q.topK, q.threshold, q.filters)
     IN queries' = (queries (-) SetToBag({q})) (+) SetToBag({[pc |-> "context",
         topK |-> 0, threshold |-> 0, filters |-> NoFilters,
         results |-> results,
         context |-> << >>,
         scores |-> [i \in 1..Len(results) |-> score[results[i]]],
         met |-> IF \E c \in Chunks : score[c] >= q.threshold THEN 1 ELSE 0]})
  /\ UNCHANGED <<ragInitialized, execuTorchIsLoaded, response>>

\* query: buildContext, then generateAnswer up to the awaited generation
queryGenerate(q) ==
  /\ q \in BagToSet(queries)
  /\ q.pc = "context"
  /\ IF ~execuTorchIsLoaded
     THEN /\ queries' = queries (-) SetToBag({q})
          /\ response' = [NoResponse EXCEPT !.status = "ModelNotInitialized", !.met = q.met]
     ELSE /\ queries' = (queries (-) SetToBag({q})) (+) SetToBag({
                 [q EXCEPT !.pc = "generate", !.context = buildContext(q.results)]})
          /\ UNCHANGED response
  /\ UNCHANGED <<ragInitialized, execuTorchIsLoaded>>

\* query: the generation returns (or throws); buildCitations and the response
queryReturn(q, generated) ==
  /\ q \in BagToSet(queries)
  /\ q.pc = "generate"
  /\ queries' = queries (-) SetToBag({q})
  /\ response' = IF generated
                 THEN [status |-> "ok", sources |-> buildCitations(q.results),
                       context |-> q.context, answer |-> "generated",
                       confidence |-> calculateConfidence(q.scores), met |-> q.met]
                 ELSE [NoResponse EXCEPT !.status = "GenerationError", !.met = q.met]
  /\ UNCHANGED <<ragInitialized, execuTorchIsLoaded>>

\* ------------------------------------------------------------------------
\* The services that hold models: ExecuTorchService, ASRService, TTSService
\* ------------------------------------------------------------------------
\* the ids of the catalog that the services pass to the ModelManager:
\* 'llama-3.2-1b-thai', config.modelType, `vits-thai-${config.voice}`
LlmModel == 1
AsrModelTypes == {2, 3}
VitsModel(voice) == IF voice = "female" THEN 4 ELSE 5
TtsVoices == {"female", "male-monk"}

VARIABLES
  nativeModules,  \* NativeModules holds ExecuTorchModule, WhisperModule, VITSModule
  asrIsLoaded,    \* ASRService.isLoaded
  asrModelType,   \* ASRService.modelType (0 for null)
  ttsIsLoaded,    \* TTSService.isLoaded
  ttsVoice,       \* TTSService.voice
  svcPc,          \* the await at which the service call in progress is suspended
  svcResult       \* history: the last service call, the lifecycle failure it
                  \* met and how it ended

svcVars == <<nativeModules, asrIsLoaded, asrModelType, ttsIsLoaded, ttsVoice, svcPc, svcResult>>

NoSvcResult == [op |-> "none", failure |-> "none", res |-> "none"]

\* ModelManager.isModelDownloaded: `model?.downloaded || false`
isModelDownloaded(m) == m \in Models /\ downloaded[m]

SvcInit ==
  /\ nativeModules \in BOOLEAN
  /\ asrIsLoaded = FALSE
  /\ asrModelType = 0
  /\ ttsIsLoaded = FALSE
  /\ ttsVoice = "female"
  /\ svcPc = "idle"
  /\ svcResult = NoSvcResult

\* ExecuTorchService.initialize: entry (unload if loaded, the downloaded
\* check), up to the awaited native load
execuTorchInitialize ==
  /\ svcPc = "idle"
  /\ calls = EmptyBag
  /\ execuTorchIsLoaded' = FALSE
  /\ IF ~isModelDownloaded(LlmModel)
     THEN /\ svcResult' = [op |-> "llm.initialize", failure |-> "NotInstalled", res |-> "error"]
          /\ UNCHANGED svcPc
     ELSE /\ svcResult' = [op |-> "llm.initialize", failure |-> "none", res |-> "pending"]
          /\ svcPc' = "llm.load"
  /\ UNCHANGED <<mmVars, nativeModules, asrIsLoaded, asrModelType, ttsIsLoaded, ttsVoice>>

\* ExecuTorchService.initialize: ExecuTorchModule.loadModel returned `ok`, or
\* the mock branch ran; then modelManager.loadModel is called
execuTorchInitializeLoad(ok) ==
  /\ svcPc = "llm.load"
  /\ IF nativeModules /\ ~ok
     THEN /\ execuTorchIsLoaded' = FALSE
          /\ svcResult' = [svcResult EXCEPT !.failure = "NotLoadable", !.res = "false"]
          /\ svcPc' = "idle"
          /\ UNCHANGED mmVars
     ELSE /\ execuTorchIsLoaded' = TRUE
          /\ svcResult' = [svcResult EXCEPT
                !.failure = IF nativeModules THEN "none" ELSE "RuntimeUnavailable"]
          /\ svcPc' = "llm.acquire"
          /\ loadModel(LlmModel)
  /\ UNCHANGED <<nativeModules, asrIsLoaded, asrModelType, ttsIsLoaded, ttsVoice>>

\* ExecuTorchService.generate: `ok` is whether ExecuTorchModule.generate returned
execuTorchGenerate(ok) ==
  /\ svcPc = "idle"
  /\ svcResult' =
       IF ~execuTorchIsLoaded
       THEN [op |-> "llm.generate", failure |-> "NotLoaded", res |-> "error"]
       ELSE IF nativeModules
       THEN IF ok THEN [op |-> "llm.generate", failure |-> "none", res |-> "ok"]
            ELSE [op |-> "llm.generate", failure |-> "NotLoadable", res |-> "error"]
       ELSE [op |-> "llm.generate", failure |-> "RuntimeUnavailable", res |-> "mock"]
  /\ UNCHANGED <<mmVars, execuTorchIsLoaded, nativeModules, asrIsLoaded, asrModelType,
                 ttsIsLoaded, ttsVoice, svcPc>>

\* ASRService.unload
asrUnload ==
  /\ svcPc = "idle"
  /\ calls = EmptyBag
  /\ IF asrModelType # 0 /\ asrIsLoaded
     THEN unloadModel(asrModelType)
     ELSE UNCHANGED mmVars
  /\ asrIsLoaded' = FALSE
  /\ asrModelType' = 0
  /\ UNCHANGED <<execuTorchIsLoaded, nativeModules, ttsIsLoaded, ttsVoice, svcPc, svcResult>>

\* ASRService.initialize: entry (unload of the previous model, the downloaded
\* check), up to the awaited native load
asrInitialize(t) ==
  /\ svcPc = "idle"
  /\ calls = EmptyBag
  /\ IF asrIsLoaded /\ asrModelType = t
     THEN /\ svcResult' = [op |-> "asr.initialize", failure |-> "none", res |-> "ok"]
          /\ UNCHANGED <<mmVars, asrIsLoaded, asrModelType, svcPc>>
     ELSE /\ IF asrIsLoaded /\ asrModelType # 0
             THEN unloadModel(asrModelType)
             ELSE UNCHANGED mmVars
          /\ asrIsLoaded' = FALSE
          /\ asrModelType' = t
          /\ IF ~isModelDownloaded(t)
             THEN /\ svcResult' = [op |-> "asr.initialize", failure |-> "NotInstalled",
                                   res |-> "error"]
                  /\ UNCHANGED svcPc
             ELSE /\ svcResult' = [op |-> "asr.initialize", failure |-> "none",
                                   res |-> "pending"]
                  /\ svcPc' = "asr.load"
  /\ UNCHANGED <<execuTorchIsLoaded, nativeModules, ttsIsLoaded, ttsVoice>>

\* ASRService.initialize: WhisperModule.loadModel returned `ok`, or the mock
\* branch ran; then modelManager.loadModel is called
asrInitializeLoad(ok) ==
  /\ svcPc = "asr.load"
  /\ IF nativeModules /\ ~ok
     THEN /\ asrIsLoaded' = FALSE
          /\ svcResult' = [svcResult EXCEPT !.failure = "NotLoadable", !.res = "ok"]
          /\ svcPc' = "idle"
          /\ UNCHANGED mmVars
     ELSE /\ asrIsLoaded' = TRUE
          /\ svcResult' = [svcResult EXCEPT
                !.failure = IF nativeModules THEN "none" ELSE "RuntimeUnavailable"]
          /\ svcPc' = "asr.acquire"
          /\ loadModel(asrModelType)
  /\ UNCHANGED <<execuTorchIsLoaded, nativeModules, asrModelType, ttsIsLoaded, ttsVoice>>

\* initialize of ExecuTorchService or ASRService: the awaited
\* modelManager.loadModel has returned or thrown
initializeReturn ==
  /\ svcPc \in {"llm.acquire", "asr.acquire"}
  /\ calls = EmptyBag
  /\ svcResult' = [svcResult EXCEPT !.res = IF seq.res = "ok" THEN "ok" ELSE "error"]
  /\ svcPc' = "idle"
  /\ UNCHANGED <<mmVars, execuTorchIsLoaded, nativeModules, asrIsLoaded, asrModelType,
                 ttsIsLoaded, ttsVoice>>

\* TTSService.unload
ttsUnload ==
  /\ svcPc = "idle"
  /\ ttsIsLoaded' = FALSE
  /\ UNCHANGED <<mmVars, execuTorchIsLoaded, nativeModules, asrIsLoaded, asrModelType,
                 ttsVoice, svcPc, svcResult>>

\* TTSService.initialize with modelType 'vits': entry and initializeVITS, up
\* to the awaited VITSModule.loadModel
ttsInitialize(voice) ==
  /\ svcPc = "idle"
  /\ IF ttsIsLoaded /\ ttsVoice = voice
     THEN /\ svcResult' = [op |-> "tts.initialize", failure |-> "none", res |-> "ok"]
          /\ UNCHANGED <<ttsIsLoaded, ttsVoice, svcPc>>
     ELSE /\ ttsVoice' = voice
          /\ ttsIsLoaded' = FALSE
          /\ IF ~isModelDownloaded(VitsModel(voice)) /\ voice = "male-monk"
             THEN /\ svcResult' = [op |-> "tts.initialize", failure |-> "NotInstalled",
                                   res |-> "error"]
                  /\ UNCHANGED svcPc
             ELSE IF ~nativeModules
             THEN /\ svcResult' = [op |-> "tts.initialize",
                                   failure |-> "RuntimeUnavailable", res |-> "ok"]
                  /\ UNCHANGED svcPc
             ELSE /\ svcResult' = [op |-> "tts.initialize",
                        failure |-> IF isModelDownloaded(VitsModel(voice))
                                    THEN "none" ELSE "NotInstalled",
                        res |-> "pending"]
                  /\ svcPc' = "tts.load"
  /\ UNCHANGED <<mmVars, execuTorchIsLoaded, nativeModules, asrIsLoaded, asrModelType>>

\* TTSService.initializeVITS: VITSModule.loadModel returned `ok`
ttsInitializeLoad(ok) ==
  /\ svcPc = "tts.load"
  /\ ttsIsLoaded' = ok
  /\ svcResult' = [svcResult EXCEPT
        !.failure = IF svcResult.failure = "none" /\ ~ok THEN "NotLoadable" ELSE @,
        !.res = "ok"]
  /\ svcPc' = "idle"
  /\ UNCHANGED <<mmVars, execuTorchIsLoaded, nativeModules, asrIsLoaded, asrModelType,
                 ttsVoice>>

\* ------------------------------------------------------------------------
\* DatabaseService: the embeddings of the corpus and one vectorSearch call
\* ------------------------------------------------------------------------
\* lengths of an embedding (the mock embeddings have 384 numbers)
DimChoices == {384, 768}

\* cosine similarity of a query and a row of equal length, in hundredths
SimilarityChoices == {-20, 30, 80}

\* the `limit` and `threshold` arguments of vectorSearch
LimitChoices == 0..MaxChunks
SearchThresholds == {-10, 0, 60}

VARIABLES
  dimensions,  \* length of the stored embedding of each row of `embeddings`
  search       \* a vectorSearch call: its arguments and, once made, its results

searchVars == <<dimensions, search>>

NoSearch ==
  [sim |-> [c \in Chunks |-> 80], qLen |-> 384, limit |-> 0, threshold |-> 60,
   done |-> TRUE, results |-> << >>]

\* DatabaseService.cosineDistance on vectors of the given lengths, in
\* hundredths; `similarity` is dotProduct / (|a| * |b|)
cosineDistance(aLen, bLen, similarity) ==
  IF aLen # bLen THEN 100 ELSE 100 - similarity

\* vectorSearch: `score: 1 - distance` of every row
RowScore(qLen, sim) ==
  [c \in Chunks |-> 100 - cosineDistance(qLen, dimensions[c], sim[c])]

\* a corpus whose embeddings all have the length of the mock query embedding
SearchIdle ==
  /\ dimensions = [c \in Chunks |-> 384]
  /\ search = NoSearch

\* any stored embedding lengths and any arguments of the call to come
SearchInit ==
  /\ dimensions \in [Chunks -> DimChoices]
  /\ search \in [sim : [Chunks -> SimilarityChoices], qLen : DimChoices,
                 limit : LimitChoices, threshold : SearchThresholds,
                 done : {FALSE}, results : {<< >>}]

\* DatabaseService.vectorSearch(queryEmbedding, limit, threshold)
vectorSearchCall ==
  /\ ~search.done
  /\ search' = [search EXCEPT
        !.done = TRUE,
        !.results = vectorSearch(RowScore(search.qLen, search.sim),
                                 search.limit, search.threshold)]
  /\ UNCHANGED dimensions

\* ------------------------------------------------------------------------
\* DatabaseService: the tables of the user documents; DocumentProcessor
\* ------------------------------------------------------------------------
\* ids of the user documents, in the order addUserDocument creates them
Docs == 1..MaxDocs

\* `user-chunk-${documentId}-${chunkIndex}`, kept apart from the ids of the
\* rows of `chunks`
UserChunkId(documentId, chunkIndex) == 100 * documentId + chunkIndex

VARIABLES
  user_documents,   \* rows of user_documents: id, chunk_count, status
  user_chunks,      \* rows of user_chunks: id, document_id, chunk_index, total_chunks
  user_embeddings,  \* rows of user_embeddings: their chunk_id
  nextDoc,          \* number of documents created so far
  isProcessing,     \* DocumentProcessor.isProcessing
  job,              \* the processDocument call suspended at an await
  storeOp,          \* history: the call that returned or threw in the last step
  lastRetrieve      \* history: the retrieveChunks call made in the last step

storeVars == <<user_documents, user_chunks, user_embeddings, nextDoc, isProcessing,
               job, storeOp, lastRetrieve>>

NoJob == [pc |-> "none", docId |-> 0, n |-> 0, i |-> 0]

NoStoreOp ==
  [op |-> "none", doc |-> 0, res |-> "none", chunkCount |-> 0,
   chunk_count |-> 0, chunksBefore |-> {}]

NoRetrieve == [done |-> FALSE, userDocumentsOnly |-> FALSE, matching |-> {}, results |-> << >>]

StoreInit ==
  /\ user_documents = {}
  /\ user_chunks = {}
  /\ user_embeddings = {}
  /\ nextDoc = 0
  /\ isProcessing = FALSE
  /\ job = NoJob
  /\ storeOp = NoStoreOp
  /\ lastRetrieve = NoRetrieve

\* DatabaseService.getStats
getStats ==
  [suttasCount |-> MaxChunks, chunksCount |-> Cardinality(Chunks),
   embeddingsCount |-> Cardinality(Chunks),
   userDocumentsCount |-> Cardinality(user_documents)]

\* the two INSERT statements of addUserChunk, each its own db.execute;
\* statement `fail` throws (0: none does).  An INSERT of an id that the
\* table holds throws as well.
addUserChunk(documentId, chunkIndex, totalChunks, fail) ==
  LET id == UserChunkId(documentId, chunkIndex)
      row == [id |-> id, document_id |-> documentId, chunk_index |-> chunkIndex,
              total_chunks |-> totalChunks]
      first == fail # 1 /\ ~\E c \in user_chunks : c.id = id
      second == first /\ fail # 2 /\ id \notin user_embeddings
  IN /\ user_chunks' = IF first THEN user_chunks \cup {row} ELSE user_chunks
     /\ user_embeddings' = IF second THEN user_embeddings \cup {id} ELSE user_embeddings

\* whether that call of addUserChunk returns
addUserChunkReturns(documentId, chunkIndex, fail) ==
  /\ fail = 0
  /\ ~\E c \in user_chunks : c.id = UserChunkId(documentId, chunkIndex)
  /\ UserChunkId(documentId, chunkIndex) \notin user_embeddings

\* DatabaseService.deleteUserDocument: three DELETE statements, each its own
\* db.execute; statement `fail` throws (0: none does)
deleteUserDocument(id, fail) ==
  LET ofDoc == {c.id : c \in {x \in user_chunks : x.document_id = id}}
      row == {r \in user_documents : r.id = id}
  IN /\ user_embeddings' = IF fail # 1 THEN user_embeddings \ ofDoc ELSE user_embeddings
     /\ user_chunks' = IF fail \notin {1, 2}
                       THEN {c \in user_chunks : c.document_id # id}
                       ELSE user_chunks
     /\ user_documents' = IF fail = 0
                          THEN {r \in user_documents : r.id # id}
                          ELSE user_documents
     /\ storeOp' = [op |-> "delete", doc |-> id,
                    res |-> IF fail = 0 THEN "ok" ELSE "error",
                    chunkCount |-> 0,
                    chunk_count |-> IF row = {} THEN 0 ELSE (CHOOSE r \in row : TRUE).chunk_count,
                    chunksBefore |-> user_chunks]
     /\ lastRetrieve' = NoRetrieve
     /\ UNCHANGED <<nextDoc, isProcessing, job>>

\* processDocument whose rejected call runs the `finally` block
processDocumentClearing(n) ==
  /\ nextDoc < MaxDocs
  /\ IF isProcessing
     THEN /\ storeOp' = [NoStoreOp EXCEPT !.op = "process", !.res = "busy"]
          /\ isProcessing' = FALSE
          /\ UNCHANGED <<user_documents, nextDoc, job>>
     ELSE /\ isProcessing' = TRUE
          /\ nextDoc' = nextDoc + 1
          /\ user_documents' = user_documents \cup
                {[id |-> nextDoc + 1, chunk_count |-> 0, status |-> "processing"]}
          /\ job' = [pc |-> "store", docId |-> nextDoc + 1, n |-> n, i |-> 0]
          /\ storeOp' = NoStoreOp
  /\ lastRetrieve' = NoRetrieve
  /\ UNCHANGED <<user_chunks, user_embeddings>>

\* DocumentProcessor.processDocument: entry, addUserDocument and chunkText;
\* n is the number of chunks that chunkText pushes, with index 0 .. n - 1
processDocument(n) ==
  /\ nextDoc < MaxDocs
  /\ IF isProcessing
     THEN /\ storeOp' = [NoStoreOp EXCEPT !.op = "process", !.res = "busy"]
          /\ UNCHANGED <<user_documents, nextDoc, isProcessing, job>>
     ELSE /\ isProcessing' = TRUE
          /\ nextDoc' = nextDoc + 1
          /\ user_documents' = user_documents \cup
                {[id |-> nextDoc + 1, chunk_count |-> 0, status |-> "processing"]}
          /\ job' = [pc |-> "store", docId |-> nextDoc + 1, n |-> n, i |-> 0]
          /\ storeOp' = NoStoreOp
  /\ lastRetrieve' = NoRetrieve
  /\ UNCHANGED <<user_chunks, user_embeddings>>

\* DocumentProcessor.storeChunks: the next awaited addUserChunk; when it
\* throws, processDocument rethrows and its finally block runs
storeChunks(fail) ==
  /\ job.pc = "store"
  /\ job.i < job.n
  /\ addUserChunk(job.docId, job.i, job.n, fail)
  /\ IF addUserChunkReturns(job.docId, job.i, fail)
     THEN /\ job' = [job EXCEPT !.i = job.i + 1]
          /\ storeOp' = NoStoreOp
          /\ UNCHANGED isProcessing
     ELSE /\ job' = NoJob
          /\ isProcessing' = FALSE
          /\ storeOp' = [NoStoreOp EXCEPT !.op = "process", !.doc = job.docId,
                                          !.res = "error"]
  /\ lastRetrieve' = NoRetrieve
  /\ UNCHANGED <<user_documents, nextDoc>>

\* DocumentProcessor.processDocument: storeChunks has returned; the
\* UserDocument it returns and the finally block
processDocumentReturn ==
  /\ job.pc = "store"
  /\ job.i = job.n
  /\ job' = NoJob
  /\ isProcessing' = FALSE
  /\ storeOp' = [NoStoreOp EXCEPT !.op = "process", !.doc = job.docId,
                                  !.res = "ready", !.chunkCount = job.n]
  /\ lastRetrieve' = NoRetrieve
  /\ UNCHANGED <<user_documents, user_chunks, user_embeddings, nextDoc>>

\* the filters of a retrieval that asks for the user documents or not
UserFilters(userDocumentsOnly) ==
  [given |-> TRUE, pitaka |-> {}, nikaya |-> {}, userDocumentsOnly |-> userDocumentsOnly]

\* RAGEngine.retrieveChunks with the default topK and threshold; `matching`
\* are the stored user chunks whose embedding scores at or above the threshold
retrieveUserChunks(score, userDocumentsOnly, matching) ==
  /\ matching \subseteq user_embeddings \cap {c.id : c \in user_chunks}
  /\ lastRetrieve' =
       [done |-> TRUE, userDocumentsOnly |-> userDocumentsOnly, matching |-> matching,
        results |-> retrieveChunks(score, DEFAULT_TOP_K, DEFAULT_THRESHOLD,
                                   UserFilters(userDocumentsOnly))]
  /\ storeOp' = NoStoreOp
  /\ UNCHANGED <<user_documents, user_chunks, user_embeddings, nextDoc, isProcessing, job>>

\* ------------------------------------------------------------------------
\* RAGEngine.buildContext on results of any size
\* ------------------------------------------------------------------------
\* characters of `title_thai` plus `content` of a result: those in the Thai
\* block and the others
ThaiCharChoices == {1000, 2046, 4200}
OtherCharChoices == {0, 3}
TextChoices == [thai : ThaiCharChoices, other : OtherCharChoices]

VARIABLES
  context  \* a buildContext call: the texts of its results and, once made,
           \* the number of them that the returned string holds

NoContext == [texts |-> << >>, done |-> TRUE, held |-> 0]

ContextIdle == context = NoContext

\* any list of at most MaxChunks results
ContextInit ==
  \E n \in 0..MaxChunks :
    context \in [texts : [1..n -> TextChoices], done : {FALSE}, held : {0}]

\* estimateTokens of `[${title_thai}]\n${content}\n`: four more characters
TextTokens(t) == estimateTokens(t.thai, t.other + 4)

\* buildContext: the loop; the number of results pushed to `contexts`
RECURSIVE BuildContextCount(_, _, _)
BuildContextCount(texts, i, currentTokens) ==
  IF i > Len(texts) \/ currentTokens + TextTokens(texts[i]) > MAX_CONTEXT_TOKENS
  THEN 0
  ELSE 1 + BuildContextCount(texts, i + 1, currentTokens + TextTokens(texts[i]))

RECURSIVE SumThai(_, _)
SumThai(texts, k) == IF k = 0 THEN 0 ELSE texts[k].thai + SumThai(texts, k - 1)

RECURSIVE SumOther(_, _)
SumOther(texts, k) == IF k = 0 THEN 0 ELSE texts[k].other + 4 + SumOther(texts, k - 1)

\* estimateTokens of `contexts.join('\n---\n')` for the first k results: the
\* chunks and the k - 1 separators of five characters
JoinedTokens(texts, k) ==
  estimateTokens(SumThai(texts, k), SumOther(texts, k) + (IF k = 0 THEN 0 ELSE 5 * (k - 1)))

\* RAGEngine.buildContext(results)
buildContextCall ==
  /\ ~context.done
  /\ context' = [context EXCEPT !.done = TRUE,
                                !.held = BuildContextCount(context.texts, 1, 0)]

\* ------------------------------------------------------------------------
\* DatabaseService: the connection and its initialization
\* ------------------------------------------------------------------------
VARIABLES
  db,             \* DatabaseService.db: "null" or "open"
  dbInitialized,  \* DatabaseService.initialized
  dbCall          \* history: the DatabaseService call made last

dbVars == <<db, dbInitialized, dbCall>>

\* initialized: whether initialize() had completed and close() had not been
\* called since, when the call was made
NoDbCall == [op |-> "none", res |-> "none", initialized |-> FALSE]

DbIdle ==
  /\ db = "null"
  /\ dbInitialized = FALSE
  /\ dbCall = NoDbCall

\* what initialize() meets: a database that opens and has the required
\* tables, an asset that cannot be copied, or a file that lacks a table
InitializeOutcomes == {"ok", "copyFails", "verifyFails"}

\* DatabaseService.initialize
dbInitialize(outcome) ==
  /\ IF dbInitialized
     THEN /\ UNCHANGED <<db, dbInitialized>>
          /\ dbCall' = [op |-> "initialize", res |-> "ok", initialized |-> TRUE]
     ELSE CASE outcome = "copyFails" ->
                 /\ UNCHANGED <<db, dbInitialized>>
                 /\ dbCall' = [op |-> "initialize", res |-> "AssetNotFound",
                               initialized |-> FALSE]
            [] outcome = "verifyFails" ->
                 /\ db' = "open"
                 /\ UNCHANGED dbInitialized
                 /\ dbCall' = [op |-> "initialize", res |-> "MissingTables",
                               initialized |-> FALSE]
            [] OTHER ->
                 /\ db' = "open"
                 /\ dbInitialized' = TRUE
                 /\ dbCall' = [op |-> "initialize", res |-> "ok", initialized |-> FALSE]

\* DatabaseService.close
dbClose ==
  /\ IF db # "null"
     THEN db' = "null" /\ dbInitialized' = FALSE
     ELSE UNCHANGED <<db, dbInitialized>>
  /\ dbCall' = [op |-> "close", res |-> "ok", initialized |-> dbInitialized]

\* an operation of DatabaseService (getNikayas, search, vectorSearch,
\* getStats, ...): its guard and then its SQL statement; sqlOk is whether
\* the statement runs on a database whose verification failed
dbOperation(sqlOk) ==
  /\ dbCall' = [op |-> "operation",
                res |-> IF db = "null" THEN "NotInitialized"
                        ELSE IF dbInitialized \/ sqlOk THEN "ok" ELSE "SqlError",
                initialized |-> dbInitialized]
  /\ UNCHANGED <<db, dbInitialized>>

\* ------------------------------------------------------------------------
\* VoicePipeline, the recorder of ASRService and the voice store
\* ------------------------------------------------------------------------
\* the interactions that can be under way at once, and the stopRecording
\* calls of stop() that can be awaiting the native module at once
MaxInteractions == 2
MaxStops == 1

Interactions == 1..MaxInteractions

VARIABLES
  pipelineIsProcessing, \* VoicePipeline.isProcessing
  storeIsProcessing,    \* useVoiceStore isProcessing
  recIsRecording,       \* ASRService.recorder.isRecording
  inter,                \* the position of each interaction, and whether
                        \* stop() was called while it ran
  stopCalls,            \* stopRecording calls made by stop(), awaiting the native module
  stopSuccesses,        \* history: stopRecording calls that returned, for the current recording
  lastStop,             \* history: the stopRecording call that settled last
  voiceEvent            \* history: the answer delivered last

voiceVars ==
  <<pipelineIsProcessing, storeIsProcessing, recIsRecording, inter, stopCalls,
    stopSuccesses, lastStop, voiceEvent>>

IdleInteraction == [kind |-> "none", pc |-> "idle", cancelled |-> FALSE]
NoStop == [active |-> FALSE, res |-> "none"]
NoVoiceEvent == [type |-> "none", kind |-> "none", cancelled |-> FALSE]

VoiceIdle ==
  /\ pipelineIsProcessing = FALSE
  /\ storeIsProcessing = FALSE
  /\ recIsRecording = FALSE
  /\ inter = [i \in Interactions |-> IdleInteraction]
  /\ stopCalls = 0
  /\ stopSuccesses = 0
  /\ lastStop = NoStop
  /\ voiceEvent = NoVoiceEvent

\* the `finally` of an interaction (and, before it, the `catch` of
\* startVoiceInteraction): startVoiceInteraction clears both flags,
\* startStreamingInteraction the pipeline's only
VoiceFinally(i) ==
  /\ inter' = [inter EXCEPT ![i] = IdleInteraction]
  /\ pipelineIsProcessing' = FALSE
  /\ storeIsProcessing' = IF inter[i].kind = "voice" THEN FALSE ELSE storeIsProcessing

\* ASRService.startRecording up to its await, called by interaction i
StartRecordingCall(i, kind) ==
  IF recIsRecording
  THEN /\ inter' = [inter EXCEPT ![i] = [kind |-> kind, pc |-> "timer", cancelled |-> FALSE]]
       /\ UNCHANGED <<recIsRecording, stopSuccesses>>
  ELSE IF nativeModules
  THEN /\ inter' = [inter EXCEPT ![i] = [kind |-> kind, pc |-> "starting", cancelled |-> FALSE]]
       /\ UNCHANGED <<recIsRecording, stopSuccesses>>
  ELSE /\ inter' = [inter EXCEPT ![i] = [kind |-> kind, pc |-> "timer", cancelled |-> FALSE]]
       /\ recIsRecording' = TRUE
       /\ stopSuccesses' = 0

\* VoicePipeline.startVoiceInteraction up to `await asrService.startRecording()`
startVoiceInteraction(i) ==
  /\ inter[i].pc = "idle"
  /\ IF pipelineIsProcessing
     THEN UNCHANGED <<pipelineIsProcessing, storeIsProcessing, recIsRecording, inter,
                      stopSuccesses>>
     ELSE /\ pipelineIsProcessing' = TRUE
          /\ storeIsProcessing' = TRUE
          /\ StartRecordingCall(i, "voice")
  /\ UNCHANGED <<stopCalls, lastStop, voiceEvent>>

\* VoicePipeline.startStreamingInteraction up to `await asrService.startRecording()`
startStreamingInteraction(i) ==
  /\ inter[i].pc = "idle"
  /\ pipelineIsProcessing' = TRUE
  /\ StartRecordingCall(i, "streaming")
  /\ UNCHANGED <<storeIsProcessing, stopCalls, lastStop, voiceEvent>>

\* ASRService.startRecording: the native module has started (or failed to)
startRecordingResume(i, ok) ==
  /\ inter[i].pc = "starting"
  /\ IF ok
     THEN /\ recIsRecording' = TRUE
          /\ stopSuccesses' = IF recIsRecording THEN stopSuccesses ELSE 0
          /\ inter' = [inter EXCEPT ![i].pc = "timer"]
          /\ UNCHANGED <<pipelineIsProcessing, storeIsProcessing>>
     ELSE /\ VoiceFinally(i)
          /\ UNCHANGED <<recIsRecording, stopSuccesses>>
  /\ UNCHANGED <<stopCalls, lastStop, voiceEvent>>

\* the timer of the interaction fires: ASRService.stopRecording up to its await
stopRecording(i) ==
  /\ inter[i].pc = "timer"
  /\ IF ~recIsRecording
     THEN /\ lastStop' = [active |-> FALSE, res |-> "NotRecording"]
          /\ VoiceFinally(i)
          /\ UNCHANGED <<recIsRecording, stopSuccesses>>
     ELSE IF nativeModules
     THEN /\ inter' = [inter EXCEPT ![i].pc = "stopping"]
          /\ UNCHANGED <<pipelineIsProcessing, storeIsProcessing, recIsRecording,
                         stopSuccesses, lastStop>>
     ELSE /\ recIsRecording' = FALSE
          /\ stopSuccesses' = stopSuccesses + 1
          /\ lastStop' = [active |-> TRUE, res |-> "ok"]
          /\ inter' = [inter EXCEPT ![i].pc = "transcribe"]
          /\ UNCHANGED <<pipelineIsProcessing, storeIsProcessing>>
  /\ UNCHANGED <<stopCalls, voiceEvent>>

\* ASRService.stopRecording: the native module has returned the path (or
\* thrown); then asrService.transcribe up to its await
stopRecordingResume(i, ok) ==
  /\ inter[i].pc = "stopping"
  /\ IF ok
     THEN /\ recIsRecording' = FALSE
          /\ stopSuccesses' = stopSuccesses + 1
          /\ lastStop' = [active |-> TRUE, res |-> "ok"]
          /\ inter' = [inter EXCEPT ![i].pc = "transcribe"]
          /\ UNCHANGED <<pipelineIsProcessing, storeIsProcessing>>
     ELSE /\ lastStop' = [active |-> TRUE, res |-> "NativeError"]
          /\ VoiceFinally(i)
          /\ UNCHANGED <<recIsRecording, stopSuccesses>>
  /\ UNCHANGED <<stopCalls, voiceEvent>>

\* the transcription returns (or throws); then ragEngine.query up to its await
transcribeResume(i, ok) ==
  /\ inter[i].pc = "transcribe"
  /\ IF ok
     THEN /\ inter' = [inter EXCEPT ![i].pc = "query"]
          /\ UNCHANGED <<pipelineIsProcessing, storeIsProcessing>>
     ELSE VoiceFinally(i)
  /\ UNCHANGED <<recIsRecording, stopCalls, stopSuccesses, lastStop, voiceEvent>>

\* ragEngine.query returns (or throws): callbacks.onResponse(answer), or
\* the yield of the 'response' event; then the synthesis up to its await
queryResume(i, ok) ==
  /\ inter[i].pc = "query"
  /\ IF ok
     THEN /\ voiceEvent' = [type |-> "response", kind |-> inter[i].kind,
                            cancelled |-> inter[i].cancelled]
          /\ inter' = [inter EXCEPT ![i].pc = "speak"]
          /\ UNCHANGED <<pipelineIsProcessing, storeIsProcessing>>
     ELSE /\ VoiceFinally(i)
          /\ UNCHANGED voiceEvent
  /\ UNCHANGED <<recIsRecording, stopCalls, stopSuccesses, lastStop>>

\* the synthesis returns or throws: the end of the interaction
speakResume(i) ==
  /\ inter[i].pc = "speak"
  /\ VoiceFinally(i)
  /\ UNCHANGED <<recIsRecording, stopCalls, stopSuccesses, lastStop, voiceEvent>>

\* VoicePipeline.stop: synchronous; its asrService.stopRecording() call is
\* not awaited
stop ==
  /\ IF ~recIsRecording
     THEN UNCHANGED <<recIsRecording, stopCalls, stopSuccesses, lastStop>>
     ELSE IF nativeModules
     THEN /\ stopCalls < MaxStops
          /\ stopCalls' = stopCalls + 1
          /\ UNCHANGED <<recIsRecording, stopSuccesses, lastStop>>
     ELSE /\ recIsRecording' = FALSE
          /\ stopSuccesses' = stopSuccesses + 1
          /\ lastStop' = [active |-> TRUE, res |-> "ok"]
          /\ UNCHANGED stopCalls
  /\ pipelineIsProcessing' = FALSE
  /\ inter' = [i \in Interactions |->
                 IF inter[i].pc = "idle" THEN inter[i] ELSE [inter[i] EXCEPT !.cancelled = TRUE]]
  /\ UNCHANGED <<storeIsProcessing, voiceEvent>>

\* the stopRecording call of stop(): the native module has returned (or thrown)
stopResume(ok) ==
  /\ stopCalls > 0
  /\ stopCalls' = stopCalls - 1
  /\ IF ok
     THEN /\ recIsRecording' = FALSE
          /\ stopSuccesses' = stopSuccesses + 1
          /\ lastStop' = [active |-> TRUE, res |-> "ok"]
     ELSE /\ lastStop' = [active |-> TRUE, res |-> "NativeError"]
          /\ UNCHANGED <<recIsRecording, stopSuccesses>>
  /\ UNCHANGED <<pipelineIsProcessing, storeIsProcessing, inter, voiceEvent>>

\* ------------------------------------------------------------------------
\* RAGEngine.retrieveChunks as a function of its arguments
\* ------------------------------------------------------------------------
\* the arguments query() passes: topK after `|| DEFAULT_TOP_K`, threshold
\* after `|| DEFAULT_THRESHOLD`, and the filters of the query
RetrieveTopK == {1, 2, DEFAULT_TOP_K}
RetrieveThresholds == {DEFAULT_THRESHOLD, 80}
RetrieveFilters ==
  FilterChoices \cup {[given |-> TRUE, pitaka |-> {"sutta"}, nikaya |-> {"digha"}],
                      [given |-> TRUE, pitaka |-> {}, nikaya |-> {}]}

VARIABLE retrieval  \* history: the arguments of a retrieveChunks call and its result

NoRetrieval ==
  [score |-> [c \in Chunks |-> 50], topK |-> DEFAULT_TOP_K, threshold |-> DEFAULT_THRESHOLD,
   filters |-> NoFilters, done |-> TRUE, results |-> << >>]

RetrievalIdle == retrieval = NoRetrieval

\* any scores of the stored rows and any arguments of the call to come
RetrievalInit ==
  retrieval \in [score : [Chunks -> ScoreChoices], topK : RetrieveTopK,
                 threshold : RetrieveThresholds, filters : RetrieveFilters,
                 done : {FALSE}, results : {<< >>}]

\* RAGEngine.retrieveChunks(queryEmbedding, topK, threshold, filters)
retrieveChunksCall ==
  /\ ~retrieval.done
  /\ retrieval' = [retrieval EXCEPT
        !.done = TRUE,
        !.results = retrieveChunks(retrieval.score, retrieval.topK,
                                   retrieval.threshold, retrieval.filters)]

\* ------------------------------------------------------------------------
\* ModelDownloadService
\* ------------------------------------------------------------------------
\* the downloadModel calls that can be under way at once, and the progress
\* callbacks of one download
MaxDownloads == 2
MaxProgress == 2

\* the keys of MODEL_URLS, and the ids that the calls pass
MODEL_URLS == {"llm", "asr", "tts", "qnn"}
DownloadIds == {"llm", "qnn", "other"}

DownloadCalls == 1..MaxDownloads

VARIABLE downloads  \* per call: its position, the statuses it has notified, what it returned

NoDownload == [m |-> "none", pc |-> "idle", log |-> << >>, result |-> "none"]

DownloadIdle == downloads = [c \in DownloadCalls |-> NoDownload]

\* notify({model, status, ...}) of call c: every listener is called with it
Notify(c, status) == [downloads[c] EXCEPT !.log = Append(downloads[c].log, status)]

\* the catch block of downloadModel: the zip is cleaned up, 'error' is
\* notified and the call returns false
DownloadCatch(c) ==
  downloads' = [downloads EXCEPT ![c] =
                  [Notify(c, "error") EXCEPT !.pc = "done", !.result = "false"]]

\* ModelDownloadService.downloadModel up to `await RNFS.exists(targetDir)`
serviceDownloadModel(c, m) ==
  /\ downloads[c].pc \in {"idle", "done"}
  /\ downloads' = [downloads EXCEPT ![c] =
        IF m \notin MODEL_URLS
        THEN [m |-> m, pc |-> "done", log |-> << >>, result |-> "UnknownModel"]
        ELSE [m |-> m, pc |-> "mkdir", log |-> << >>, result |-> "none"]]

\* the target directory exists or was made (or RNFS threw); the first
\* 'downloading' and the start of the download
mkdirResume(c, ok) ==
  /\ downloads[c].pc = "mkdir"
  /\ IF ok
     THEN downloads' = [downloads EXCEPT ![c] = [Notify(c, "downloading") EXCEPT !.pc = "download"]]
     ELSE DownloadCatch(c)

\* the progress callback of RNFS.downloadFile
downloadProgress(c) ==
  /\ downloads[c].pc = "download"
  /\ Len(downloads[c].log) <= MaxProgress
  /\ downloads' = [downloads EXCEPT ![c] = Notify(c, "downloading")]

\* downloadFile returning without notifying 'error' on a failed download
downloadResumeSilent(c, statusCode) ==
  /\ downloads[c].pc = "download"
  /\ IF statusCode = 200
     THEN downloads' = [downloads EXCEPT ![c] = [Notify(c, "extracting") EXCEPT !.pc = "unlink"]]
     ELSE downloads' = [downloads EXCEPT ![c].pc = "done", ![c].result = "false"]

\* the promise of RNFS.downloadFile settles: statusCode 0 stands for a
\* rejection; 'extracting' and `await RNFS.unlink(zipPath)`
downloadResume(c, statusCode) ==
  /\ downloads[c].pc = "download"
  /\ IF statusCode = 200
     THEN downloads' = [downloads EXCEPT ![c] = [Notify(c, "extracting") EXCEPT !.pc = "unlink"]]
     ELSE DownloadCatch(c)

\* the zip is removed (or RNFS threw): 'completed' and `return true`
unlinkResume(c, ok) ==
  /\ downloads[c].pc = "unlink"
  /\ IF ok
     THEN downloads' = [downloads EXCEPT ![c] =
                          [Notify(c, "completed") EXCEPT !.pc = "done", !.result = "true"]]
     ELSE DownloadCatch(c)

\* ------------------------------------------------------------------------
\* useHistoryStore: the reading, search and chat histories
\* ------------------------------------------------------------------------
\* the limits of the three lists (50, 30 and 100 in the store), scaled down,
\* and the number of addChatHistory calls
maxReadingHistory == 2
maxSearchHistory == 2
maxChatHistory == 2
MaxChatAdds == 3

\* the suttas that can be read and the queries that can be searched: one
\* more than the list holds
SuttaIds == 1..(maxReadingHistory + 1)
SearchQueries == 1..(maxSearchHistory + 1)
ProgressChoices == {0, 100}

VARIABLES
  readingHistory,  \* ReadingHistoryItem[]: [suttaId, progress]
  searchHistory,   \* SearchHistoryItem[]: the query of each item
  chatHistory,     \* ChatHistoryItem[]: the timestamp of each item
  chatClock,       \* Date.now() as the number of addChatHistory calls made
  lastSearch       \* history: the query of the latest addSearchHistory (0: none)

historyVars == <<readingHistory, searchHistory, chatHistory, chatClock, lastSearch>>

HistoryIdle ==
  /\ readingHistory = << >>
  /\ searchHistory = << >>
  /\ chatHistory = << >>
  /\ chatClock = 0
  /\ lastSearch = 0

\* Array.prototype.findIndex(h => h.suttaId === suttaId), 1-based; 0 for -1
FindIndex(history, suttaId) ==
  IF \E i \in 1..Len(history) : history[i].suttaId = suttaId
  THEN CHOOSE i \in 1..Len(history) :
         /\ history[i].suttaId = suttaId
         /\ \A j \in 1..(i - 1) : history[j].suttaId # suttaId
  ELSE 0

\* addReadingHistory(item)
addReadingHistory(suttaId, progress) ==
  /\ LET existing == FindIndex(readingHistory, suttaId)
         newHistory == IF existing > 0
                       THEN [readingHistory EXCEPT ![existing] =
                               [suttaId |-> suttaId, progress |-> progress]]
                       ELSE <<[suttaId |-> suttaId, progress |-> progress]>> \o readingHistory
     IN readingHistory' = IF Len(newHistory) > maxReadingHistory
                          THEN Slice(newHistory, maxReadingHistory)
                          ELSE newHistory
  /\ UNCHANGED <<searchHistory, chatHistory, chatClock, lastSearch>>

\* updateReadingProgress(suttaId, progress)
updateReadingProgress(suttaId, progress) ==
  /\ LET index == FindIndex(readingHistory, suttaId)
     IN readingHistory' = IF index > 0
                          THEN [readingHistory EXCEPT ![index].progress = progress]
                          ELSE readingHistory
  /\ UNCHANGED <<searchHistory, chatHistory, chatClock, lastSearch>>

\* clearReadingHistory()
clearReadingHistory ==
  /\ readingHistory' = << >>
  /\ UNCHANGED <<searchHistory, chatHistory, chatClock, lastSearch>>

\* addSearchHistory that keeps the earlier item of the same searched
addSearchHistoryUnfiltered(searched) ==
  /\ searchHistory' = Slice(<<searched>> \o searchHistory, maxSearchHistory)
  /\ lastSearch' = searched
  /\ UNCHANGED <<readingHistory, chatHistory, chatClock>>

\* addSearchHistory(query, resultCount)
addSearchHistory(searched) ==
  /\ LET filtered == SelectSeq(searchHistory, LAMBDA h : h # searched)
     IN searchHistory' = Slice(<<searched>> \o filtered, maxSearchHistory)
  /\ lastSearch' = searched
  /\ UNCHANGED <<readingHistory, chatHistory, chatClock>>

\* clearSearchHistory()
clearSearchHistory ==
  /\ searchHistory' = << >>
  /\ lastSearch' = 0
  /\ UNCHANGED <<readingHistory, chatHistory, chatClock>>

\* addChatHistory(item)
addChatHistory ==
  /\ chatClock < MaxChatAdds
  /\ chatClock' = chatClock + 1
  /\ chatHistory' = Slice(<<chatClock + 1>> \o chatHistory, maxChatHistory)
  /\ UNCHANGED <<readingHistory, searchHistory, lastSearch>>

\* clearChatHistory()
clearChatHistory ==
  /\ chatHistory' = << >>
  /\ UNCHANGED <<readingHistory, searchHistory, chatClock, lastSearch>>

\* clearAllHistory()
clearAllHistory ==
  /\ readingHistory' = << >>
  /\ searchHistory' = << >>
  /\ chatHistory' = << >>
  /\ lastSearch' = 0
  /\ UNCHANGED chatClock

\* the variables of the components added after the stores
restVars == <<dbVars, voiceVars, retrieval, downloads, historyVars>>
restButDb == <<voiceVars, retrieval, downloads, historyVars>>
restButVoice == <<dbVars, retrieval, downloads, historyVars>>
restButRetrieval == <<dbVars, voiceVars, downloads, historyVars>>
restButDownloads == <<dbVars, voiceVars, retrieval, historyVars>>
restButHistory == <<dbVars, voiceVars, retrieval, downloads>>

RestIdle == DbIdle /\ VoiceIdle /\ RetrievalIdle /\ DownloadIdle /\ HistoryIdle

vars == <<mmVars, ragVars, svcVars, searchVars, storeVars, context, restVars>>

coreVars == <<mmVars, ragVars, svcVars, searchVars, storeVars, context>>

nonMMVars == <<ragVars, svcVars, searchVars, storeVars, context, restVars>>
nonRagVars == <<mmVars, svcVars, searchVars, storeVars, context, restVars>>

\* ------------------------------------------------------------------------
\* Specifications
\* ------------------------------------------------------------------------
\* the services at rest, in a build that links the native modules
SvcIdle == nativeModules = TRUE /\ SvcInit

Init == MMInit /\ RagInit /\ SvcIdle /\ SearchIdle /\ StoreInit /\ ContextIdle /\ RestIdle

Next ==
  \/ (\E m \in Models, status \in {200, 404} : downloadModel(m, status)) /\ UNCHANGED nonMMVars
  \/ (\E m \in Models \cup {UnknownModel} : loadModel(m)) /\ UNCHANGED nonMMVars
  \/ (\E r \in InFlight : evictModels(r)) /\ UNCHANGED nonMMVars
  \/ (\E r \in InFlight : loadModelResume(r)) /\ UNCHANGED nonMMVars
  \/ (\E m \in Models \cup {UnknownModel} : unloadModel(m)) /\ UNCHANGED nonMMVars
  \/ (\E m \in Models \cup {UnknownModel} : deleteModel(m)) /\ UNCHANGED nonMMVars
  \/ (\E r \in InFlight : deleteModelResume(r)) /\ UNCHANGED nonMMVars

\* the ModelManager under any interleaving of its calls
Spec == Init /\ [][Next]_vars

\* the ModelManager with its calls made one after the other: a call is
\* entered only when no other call is in flight
SeqNext ==
  \/ calls = EmptyBag /\ (\E m \in Models, status \in {200, 404} : downloadModel(m, status))
     /\ UNCHANGED nonMMVars
  \/ calls = EmptyBag /\ (\E m \in Models \cup {UnknownModel} : loadModel(m))
     /\ UNCHANGED nonMMVars
  \/ (\E r \in InFlight : evictModels(r)) /\ UNCHANGED nonMMVars
  \/ (\E r \in InFlight : loadModelResume(r)) /\ UNCHANGED nonMMVars
  \/ calls = EmptyBag /\ (\E m \in Models \cup {UnknownModel} : unloadModel(m))
     /\ UNCHANGED nonMMVars
  \/ calls = EmptyBag /\ (\E m \in Models \cup {UnknownModel} : deleteModel(m))
     /\ UNCHANGED nonMMVars
  \/ (\E r \in InFlight : deleteModelResume(r)) /\ UNCHANGED nonMMVars

SeqSpec == Init /\ [][SeqNext]_vars

QueryInit ==
  /\ RagInit
  /\ ramRequiredMB = [m \in Models |-> 1500]
  /\ downloaded = [m \in Models |-> FALSE]
  /\ loaded = NoneLoaded
  /\ loadedModels = {}
  /\ calls = EmptyBag
  /\ recency = << >>
  /\ seq = NoSeq
  /\ SvcIdle
  /\ SearchIdle
  /\ StoreInit
  /\ ContextIdle
  /\ RestIdle

QueryNext ==
  \/ (\E ok \in BOOLEAN : ragInitialize(ok)) /\ UNCHANGED nonRagVars
  \/ execuTorchUnload /\ UNCHANGED nonRagVars
  \/ (\E k \in TopKChoices, t \in ThresholdChoices, f \in FilterChoices : query(k, t, f))
     /\ UNCHANGED nonRagVars
  \/ (\E q \in BagToSet(queries), score \in [Chunks -> ScoreChoices] : queryRetrieve(q, score))
     /\ UNCHANGED nonRagVars
  \/ (\E q \in BagToSet(queries) : queryGenerate(q)) /\ UNCHANGED nonRagVars
  \/ (\E q \in BagToSet(queries), generated \in BOOLEAN : queryReturn(q, generated))
     /\ UNCHANGED nonRagVars

\* the RAG engine under any interleaving of query() calls
QuerySpec == QueryInit /\ [][QueryNext]_vars

\* the RAG engine with its query() calls made one after the other
QuerySeqNext ==
  \/ (\E ok \in BOOLEAN : ragInitialize(ok)) /\ UNCHANGED nonRagVars
  \/ execuTorchUnload /\ UNCHANGED nonRagVars
  \/ queries = EmptyBag
     /\ (\E k \in TopKChoices, t \in ThresholdChoices, f \in FilterChoices : query(k, t, f))
     /\ UNCHANGED nonRagVars
  \/ (\E q \in BagToSet(queries), score \in [Chunks -> ScoreChoices] : queryRetrieve(q, score))
     /\ UNCHANGED nonRagVars
  \/ (\E q \in BagToSet(queries) : queryGenerate(q)) /\ UNCHANGED nonRagVars
  \/ (\E q \in BagToSet(queries), generated \in BOOLEAN : queryReturn(q, generated))
     /\ UNCHANGED nonRagVars

QuerySeqSpec == QueryInit /\ [][QuerySeqNext]_vars

ServiceInit == MMInit /\ RagInit /\ SvcInit /\ SearchIdle /\ StoreInit /\ ContextIdle /\ RestIdle

\* the three services and the ModelManager calls they make, one service
\* call at a time
ServiceNext ==
  \/ /\ svcPc = "idle"
     /\ \E m \in Models, status \in {200, 404} : downloadModel(m, status)
     /\ UNCHANGED nonMMVars
  \/ execuTorchInitialize /\ UNCHANGED <<ragInitialized, queries, response, searchVars, storeVars, context, restVars>>
  \/ (\E ok \in BOOLEAN : execuTorchInitializeLoad(ok))
     /\ UNCHANGED <<ragInitialized, queries, response, searchVars, storeVars, context, restVars>>
  \/ (\E ok \in BOOLEAN : execuTorchGenerate(ok))
     /\ UNCHANGED <<ragInitialized, queries, response, searchVars, storeVars, context, restVars>>
  \/ svcPc = "idle" /\ execuTorchUnload /\ UNCHANGED <<mmVars, svcVars, searchVars, storeVars, context, restVars>>
  \/ (\E t \in AsrModelTypes : asrInitialize(t)) /\ UNCHANGED <<ragInitialized, queries, response, searchVars, storeVars, context, restVars>>
  \/ (\E ok \in BOOLEAN : asrInitializeLoad(ok))
     /\ UNCHANGED <<ragInitialized, queries, response, searchVars, storeVars, context, restVars>>
  \/ asrUnload /\ UNCHANGED <<ragInitialized, queries, response, searchVars, storeVars, context, restVars>>
  \/ (\E voice \in TtsVoices : ttsInitialize(voice)) /\ UNCHANGED <<ragVars, searchVars, storeVars, context, restVars>>
  \/ (\E ok \in BOOLEAN : ttsInitializeLoad(ok)) /\ UNCHANGED <<ragVars, searchVars, storeVars, context, restVars>>
  \/ ttsUnload /\ UNCHANGED <<ragVars, searchVars, storeVars, context, restVars>>
  \/ (\E r \in InFlight : evictModels(r)) /\ UNCHANGED nonMMVars
  \/ (\E r \in InFlight : loadModelResume(r)) /\ UNCHANGED nonMMVars
  \/ initializeReturn /\ UNCHANGED <<ragInitialized, queries, response, searchVars, storeVars, context, restVars>>

ServiceSpec == ServiceInit /\ [][ServiceNext]_vars

\* the state in which only the vector store acts
OthersIdle ==
  /\ ramRequiredMB = [m \in Models |-> 1500]
  /\ downloaded = [m \in Models |-> FALSE]
  /\ loaded = NoneLoaded
  /\ loadedModels = {}
  /\ calls = EmptyBag
  /\ recency = << >>
  /\ seq = NoSeq
  /\ RagInit
  /\ SvcIdle
  /\ RestIdle

VectorSearchInit == OthersIdle /\ SearchInit /\ StoreInit /\ ContextIdle

VectorSearchNext == vectorSearchCall /\ UNCHANGED <<mmVars, ragVars, svcVars, storeVars, context, restVars>>

\* one vectorSearch call on any corpus with any arguments
VectorSearchSpec == VectorSearchInit /\ [][VectorSearchNext]_vars

DocumentInit == OthersIdle /\ SearchIdle /\ StoreInit /\ ContextIdle

\* the import of user documents, their deletion and retrievals, in any order
DocumentNext ==
  \/ (\E n \in 0..MaxDocChunks : processDocument(n))
     /\ UNCHANGED <<mmVars, ragVars, svcVars, searchVars, context, restVars>>
  \/ (\E fail \in 0..2 : storeChunks(fail))
     /\ UNCHANGED <<mmVars, ragVars, svcVars, searchVars, context, restVars>>
  \/ processDocumentReturn /\ UNCHANGED <<mmVars, ragVars, svcVars, searchVars, context, restVars>>
  \/ (\E id \in 1..nextDoc, fail \in 0..3 : deleteUserDocument(id, fail))
     /\ UNCHANGED <<mmVars, ragVars, svcVars, searchVars, context, restVars>>
  \/ (\E sc \in {50, 90}, u \in BOOLEAN, matching \in SUBSET user_embeddings :
        retrieveUserChunks([c \in Chunks |-> sc], u, matching))
     /\ UNCHANGED <<mmVars, ragVars, svcVars, searchVars, context, restVars>>

DocumentSpec == DocumentInit /\ [][DocumentNext]_vars

BuildContextInit == OthersIdle /\ SearchIdle /\ StoreInit /\ ContextInit

BuildContextNext ==
  buildContextCall /\ UNCHANGED <<mmVars, ragVars, svcVars, searchVars, storeVars, restVars>>

\* one buildContext call on any list of results
BuildContextSpec == BuildContextInit /\ [][BuildContextNext]_vars

\* every component of the first part at rest
CoreIdle ==
  /\ ramRequiredMB = [m \in Models |-> 1500]
  /\ downloaded = [m \in Models |-> FALSE]
  /\ loaded = NoneLoaded
  /\ loadedModels = {}
  /\ calls = EmptyBag
  /\ recency = << >>
  /\ seq = NoSeq
  /\ RagInit
  /\ SvcIdle
  /\ SearchIdle
  /\ StoreInit
  /\ ContextIdle

DatabaseInit == CoreIdle /\ RestIdle

\* RAGEngine.initialize with the databaseService.initialize() it awaits
\* first; ok is whether execuTorchService.initialize() returned
ragInitializeDatabase(outcome, ok) ==
  /\ dbInitialize(outcome)
  /\ ragInitialize((dbInitialized \/ outcome = "ok") /\ ok)

DatabaseNext ==
  \/ (\E outcome \in InitializeOutcomes : dbInitialize(outcome)) /\ UNCHANGED <<coreVars, restButDb>>
  \/ dbClose /\ UNCHANGED <<coreVars, restButDb>>
  \/ (\E sqlOk \in BOOLEAN : dbOperation(sqlOk)) /\ UNCHANGED <<coreVars, restButDb>>
  \/ (\E outcome \in InitializeOutcomes, ok \in BOOLEAN : ragInitializeDatabase(outcome, ok))
     /\ UNCHANGED <<mmVars, svcVars, searchVars, storeVars, context, restButDb>>
  \/ execuTorchUnload /\ UNCHANGED <<mmVars, svcVars, searchVars, storeVars, context, dbVars, restButDb>>
  \/ queries = EmptyBag
     /\ (\E k \in TopKChoices, t \in ThresholdChoices, f \in FilterChoices : query(k, t, f))
     /\ UNCHANGED <<mmVars, svcVars, searchVars, storeVars, context, dbVars, restButDb>>
  \/ (\E q \in BagToSet(queries), score \in [Chunks -> ScoreChoices] : queryRetrieve(q, score))
     /\ UNCHANGED <<mmVars, svcVars, searchVars, storeVars, context, dbVars, restButDb>>
  \/ (\E q \in BagToSet(queries) : queryGenerate(q))
     /\ UNCHANGED <<mmVars, svcVars, searchVars, storeVars, context, dbVars, restButDb>>
  \/ (\E q \in BagToSet(queries), generated \in BOOLEAN : queryReturn(q, generated))
     /\ UNCHANGED <<mmVars, svcVars, searchVars, storeVars, context, dbVars, restButDb>>

\* the calls of DatabaseService and of its client the RAGEngine, one at a time
DatabaseSpec == DatabaseInit /\ [][DatabaseNext]_vars

VoiceInit ==
  /\ ramRequiredMB = [m \in Models |-> 1500]
  /\ downloaded = [m \in Models |-> FALSE]
  /\ loaded = NoneLoaded
  /\ loadedModels = {}
  /\ calls = EmptyBag
  /\ recency = << >>
  /\ seq = NoSeq
  /\ RagInit
  /\ SvcInit
  /\ SearchIdle
  /\ StoreInit
  /\ ContextIdle
  /\ RestIdle

VoiceNext ==
  \/ (\E i \in Interactions : startVoiceInteraction(i)) /\ UNCHANGED <<coreVars, restButVoice>>
  \/ (\E i \in Interactions : startStreamingInteraction(i))
     /\ UNCHANGED <<coreVars, restButVoice>>
  \/ (\E i \in Interactions, ok \in BOOLEAN : startRecordingResume(i, ok))
     /\ UNCHANGED <<coreVars, restButVoice>>
  \/ (\E i \in Interactions : stopRecording(i)) /\ UNCHANGED <<coreVars, restButVoice>>
  \/ (\E i \in Interactions, ok \in BOOLEAN : stopRecordingResume(i, ok))
     /\ UNCHANGED <<coreVars, restButVoice>>
  \/ (\E i \in Interactions, ok \in BOOLEAN : transcribeResume(i, ok))
     /\ UNCHANGED <<coreVars, restButVoice>>
  \/ (\E i \in Interactions, ok \in BOOLEAN : queryResume(i, ok))
     /\ UNCHANGED <<coreVars, restButVoice>>
  \/ (\E i \in Interactions : speakResume(i)) /\ UNCHANGED <<coreVars, restButVoice>>
  \/ stop /\ UNCHANGED <<coreVars, restButVoice>>
  \/ (\E ok \in BOOLEAN : stopResume(ok)) /\ UNCHANGED <<coreVars, restButVoice>>

\* the voice pipeline under any interleaving of its starts and stop()
VoiceSpec == VoiceInit /\ [][VoiceNext]_vars

RetrieveInit ==
  CoreIdle /\ DbIdle /\ VoiceIdle /\ RetrievalInit /\ DownloadIdle /\ HistoryIdle

RetrieveNext == retrieveChunksCall /\ UNCHANGED <<coreVars, restButRetrieval>>

\* one retrieveChunks call on any scores with any arguments
RetrieveSpec == RetrieveInit /\ [][RetrieveNext]_vars

ProcessNext ==
  \/ (\E n \in 0..MaxDocChunks : processDocument(n))
     /\ UNCHANGED <<mmVars, ragVars, svcVars, searchVars, context, restVars>>
  \/ (\E fail \in 0..2 : storeChunks(fail))
     /\ UNCHANGED <<mmVars, ragVars, svcVars, searchVars, context, restVars>>
  \/ processDocumentReturn /\ UNCHANGED <<mmVars, ragVars, svcVars, searchVars, context, restVars>>

\* the calls of processDocument alone, under any interleaving
ProcessSpec == DocumentInit /\ [][ProcessNext]_vars

DownloadInit == CoreIdle /\ RestIdle

DownloadNext ==
  \/ (\E c \in DownloadCalls, m \in DownloadIds : serviceDownloadModel(c, m))
     /\ UNCHANGED <<coreVars, restButDownloads>>
  \/ (\E c \in DownloadCalls, ok \in BOOLEAN : mkdirResume(c, ok))
     /\ UNCHANGED <<coreVars, restButDownloads>>
  \/ (\E c \in DownloadCalls : downloadProgress(c)) /\ UNCHANGED <<coreVars, restButDownloads>>
  \/ (\E c \in DownloadCalls, statusCode \in {200, 404, 0} : downloadResume(c, statusCode))
     /\ UNCHANGED <<coreVars, restButDownloads>>
  \/ (\E c \in DownloadCalls, ok \in BOOLEAN : unlinkResume(c, ok))
     /\ UNCHANGED <<coreVars, restButDownloads>>

\* the downloadModel calls of ModelDownloadService under any interleaving
DownloadSpec == DownloadInit /\ [][DownloadNext]_vars

HistoryInit == CoreIdle /\ RestIdle

HistoryNext ==
  \/ (\E id \in SuttaIds, progress \in ProgressChoices : addReadingHistory(id, progress))
     /\ UNCHANGED <<coreVars, restButHistory>>
  \/ (\E id \in SuttaIds, progress \in ProgressChoices : updateReadingProgress(id, progress))
     /\ UNCHANGED <<coreVars, restButHistory>>
  \/ clearReadingHistory /\ UNCHANGED <<coreVars, restButHistory>>
  \/ (\E searched \in SearchQueries : addSearchHistory(searched))
     /\ UNCHANGED <<coreVars, restButHistory>>
  \/ clearSearchHistory /\ UNCHANGED <<coreVars, restButHistory>>
  \/ addChatHistory /\ UNCHANGED <<coreVars, restButHistory>>
  \/ clearChatHistory /\ UNCHANGED <<coreVars, restButHistory>>
  \/ clearAllHistory /\ UNCHANGED <<coreVars, restButHistory>>

\* the actions of the history store in any order
HistorySpec == HistoryInit /\ [][HistoryNext]_vars

\* ------------------------------------------------------------------------
\* Properties
\* ------------------------------------------------------------------------
Range(s) == {s[i] : i \in 1..Len(s)}

LoadedSet(ld) == {m \in Models : ld[m]}

\* a step of a loadModel call
LoadStep ==
  \/ \E m \in Models \cup {UnknownModel} : loadModel(m)
  \/ \E r \in InFlight : evictModels(r)
  \/ \E r \in InFlight : loadModelResume(r)

\* a step of a loadModel call that runs the eviction loop
EvictStep ==
  \/ \E m \in Models \cup {UnknownModel} : loadModel(m)
  \/ \E r \in InFlight : evictModels(r)

\* the last call was loadModel(seq.m) on a known model, it ran with no other
\* call in flight, and it got past the downloaded check
SoloLoad ==
  /\ seq.mode \in {"running", "done"}
  /\ seq.op = "load"
  /\ seq.m \in Models
  /\ seq.res # "NotDownloaded"

\* RAM of the loaded models that eviction may not unload
PinnedRAM(ld) == SumRAM({m \in Models : ld[m] /\ ~Evictable(ld, m)}, ramRequiredMB)

\* C1: under any interleaving of loadModel, unloadModel and deleteModel and
\* for any catalog, getLoadedModelsRAM() never exceeds the budget of 4096 MB.
C1_MemoryInvariant == getLoadedModelsRAM(loaded) <= maxRAM

\* C2: every citation in the sources of a query() response is a chunk that
\* the context string passed to the generation model holds.
C2_CitationsInContext ==
  response.status = "ok" => Range(response.sources) \subseteq Range(response.context)

\* C3: at most one query() call is in flight at a time (a second call made
\* while one is active fails with Busy instead of running).
C3_SingleFlightQuery == BagCardinality(queries) <= 1

\* C4: at most one load transition per model id is in flight at a time.
C4_OneLoadInFlight ==
  \A r1, r2 \in InFlight :
    (r1.op = "load" /\ r2.op = "load" /\ r1.m = r2.m)
      => (r1 = r2 /\ CopiesIn(r1, calls) = 1)

\* C5: when the model does not fit even after every evictable loaded model
\* is unloaded, loadModel fails with InsufficientMemory and the model is not
\* marked loaded.
C5_InsufficientMemory ==
  (SoloLoad /\ seq.mode = "done" /\ ~seq.pre[seq.m]
     /\ PinnedRAM(seq.pre) + ramRequiredMB[seq.m] > maxRAM)
    => (seq.res = "InsufficientMemory" /\ ~loaded[seq.m])

\* C6: loadModel on a model that is already loaded is a no-op: the loaded
\* flags of all models (and so getLoadedModelsRAM()) are as before the call.
C6_AcquireIdempotent ==
  (SoloLoad /\ seq.mode = "done" /\ seq.pre[seq.m]) => loaded = seq.pre

\* C7: in every reachable state a model marked loaded is marked downloaded.
C7_LoadedImpliesInstalled == \A m \in Models : loaded[m] => downloaded[m]

\* C8: no step of a loadModel call (its eviction included) unloads a model
\* of type llm.
C8_EvictionKeepsLLM ==
  [][LoadStep => \A m \in Models : (ModelType(m) = "llm" /\ loaded[m]) => loaded'[m]]_vars

\* C8 witness: an eviction has unloaded a model while the llm stays loaded
C8_Witness ==
  \E r \in InFlight :
    /\ r.pc = "evict"
    /\ \E m \in Models : ModelType(m) = "llm" /\ loaded[m]

\* the evictable loaded model that was loaded the longest ago (0 if none)
LeastRecentlyUsed ==
  LET ev == SelectSeq(recency, LAMBDA m : Evictable(loaded, m))
  IN IF ev = << >> THEN 0 ELSE Head(ev)

\* C9: each model that eviction unloads is a loaded non-llm model and the
\* least recently used among the loaded non-llm models.
C9_EvictsLeastRecentlyUsed ==
  [][\A i \in Models :
       (EvictStep /\ loaded[i] /\ ~loaded'[i])
         => (Evictable(loaded, i) /\ i = LeastRecentlyUsed)]_vars

\* C10: when loading Y would exceed the budget and the evictable loaded
\* models free enough room, loadModel(Y) keeps Y unloaded while it evicts,
\* then succeeds: Y is loaded, only evictable models were unloaded, at least
\* one was, and getLoadedModelsRAM() is within the budget.
C10_EvictThenLoad ==
  (SoloLoad /\ ~seq.pre[seq.m]
     /\ getLoadedModelsRAM(seq.pre) + ramRequiredMB[seq.m] > maxRAM
     /\ PinnedRAM(seq.pre) + ramRequiredMB[seq.m] <= maxRAM)
    => /\ seq.mode = "running" => ~loaded[seq.m]
       /\ seq.mode = "done" =>
            /\ seq.res = "ok"
            /\ loaded[seq.m]
            /\ \A x \in Models \ {seq.m} : loaded[x] => seq.pre[x]
            /\ \A x \in Models : (seq.pre[x] /\ ~loaded[x]) => Evictable(seq.pre, x)
            /\ \E x \in Models : seq.pre[x] /\ ~loaded[x]
            /\ getLoadedModelsRAM(loaded) <= maxRAM

\* C10 witness: X (3000 MB, asr) was loaded and Y (1500 MB) was requested;
\* the call returned with X unloaded and 1500 MB loaded
C10_Witness ==
  /\ SoloLoad /\ seq.mode = "done" /\ seq.res = "ok"
  /\ LoadedSet(seq.pre) = {2} /\ ramRequiredMB[2] = 3000
  /\ seq.m = 3 /\ ramRequiredMB[3] = 1500
  /\ LoadedSet(loaded) = {3}
  /\ getLoadedModelsRAM(loaded) = 1500

\* C11: loadModel on a model that is not downloaded fails with the
\* not-downloaded error and changes nothing: every loaded flag, and so
\* getLoadedModelsRAM(), is as before the call.
C11_NotInstalledNoChange ==
  (seq.mode = "done" /\ seq.op = "load" /\ seq.m \in Models /\ ~downloaded[seq.m])
    => /\ seq.res = "NotDownloaded"
       /\ loaded = seq.pre
       /\ getLoadedModelsRAM(loaded) = getLoadedModelsRAM(seq.pre)

\* C11 witness: loadModel of a model that is not downloaded has thrown while
\* another model was loaded
C11_Witness ==
  /\ seq.mode = "done" /\ seq.op = "load" /\ seq.m \in Models
  /\ ~downloaded[seq.m]
  /\ seq.res = "NotDownloaded"
  /\ \E x \in Models : seq.pre[x] /\ loaded[x]

\* no service call and no ModelManager call is in progress
ServicesAtRest == svcPc = "idle" /\ calls = EmptyBag

\* the catalog ids of the models that the three services hold loaded
HeldByServices ==
  {m \in {LlmModel} : execuTorchIsLoaded}
    \cup {m \in AsrModelTypes : asrIsLoaded /\ asrModelType = m}
    \cup {m \in {VitsModel(ttsVoice)} : ttsIsLoaded}

\* C12: the ModelManager is the single arbiter: whenever no call is in
\* progress, the models that ExecuTorchService, ASRService and TTSService
\* hold loaded are exactly the models the ModelManager marks loaded, so
\* getLoadedModelsRAM() accounts for every loaded model.
C12_SingleArbiter == ServicesAtRest => HeldByServices = LoadedSet(loaded)

\* C13: a model lifecycle failure met by initialize or generate (model not
\* installed, not loadable, native runtime unavailable) ends the call with an
\* error; the call never ends with a mock or default answer or as a success.
C13_FailureSurfaced ==
  (svcResult.failure # "none" /\ svcResult.res # "pending") => svcResult.res = "error"

\* C14: vectorSearch(q, limit, threshold) returns at most limit results, and
\* every result has score >= threshold, for every stored embedding and query.
C14_LimitAndThreshold ==
  search.done =>
    /\ Len(search.results) <= search.limit
    /\ \A i \in 1..Len(search.results) :
         RowScore(search.qLen, search.sim)[search.results[i]] >= search.threshold

\* C14 witness: a search returned exactly `limit` rows although more rows
\* met the threshold, and a row below the threshold was left out
C14_Witness ==
  /\ search.done
  /\ search.limit >= 1
  /\ Len(search.results) = search.limit
  /\ Cardinality({c \in Chunks :
        RowScore(search.qLen, search.sim)[c] >= search.threshold}) > search.limit
  /\ \E c \in Chunks : RowScore(search.qLen, search.sim)[c] < search.threshold

\* the rows whose embedding has the length of the query embedding and whose
\* similarity meets the threshold
Matching ==
  {c \in Chunks : dimensions[c] = search.qLen /\ search.sim[c] >= search.threshold}

\* C15: a row whose embedding length differs from the query's never appears
\* in the results of vectorSearch, whatever the threshold, and the search
\* returns the matching rows (all of them when they fit in limit).
C15_MismatchSkipped ==
  search.done =>
    /\ \A c \in Chunks : dimensions[c] # search.qLen => c \notin Range(search.results)
    /\ Range(search.results) \subseteq Matching
    /\ Cardinality(Matching) <= search.limit => Range(search.results) = Matching

\* C16: a retrieval whose filters ask for the user documents returns the
\* stored user chunks whose score meets the threshold, and only user chunks.
C16_UserChunksRetrieved ==
  (lastRetrieve.done /\ lastRetrieve.userDocumentsOnly) =>
    /\ Range(lastRetrieve.results) \cap Chunks = {}
    /\ lastRetrieve.matching \subseteq Range(lastRetrieve.results)

\* the chunks of a document among the rows `rows`
ChunksOf(rows, d) == {c \in rows : c.document_id = d}

\* C17: deleteUserDocument(d) removes exactly d's chunks and embeddings: the
\* number of user chunks decreases by exactly d's chunk_count, the chunks of
\* the other documents are as before, and no chunk or embedding of d is
\* left for a search to return.
C17_DeleteExactly ==
  (storeOp.op = "delete" /\ storeOp.res = "ok") =>
    /\ Cardinality(storeOp.chunksBefore) - Cardinality(user_chunks) = storeOp.chunk_count
    /\ user_chunks = storeOp.chunksBefore \ ChunksOf(storeOp.chunksBefore, storeOp.doc)
    /\ \A c \in ChunksOf(storeOp.chunksBefore, storeOp.doc) : c.id \notin user_embeddings
    /\ getStats.chunksCount = Cardinality(Chunks)

\* a document with status 'ready' and chunk count n has exactly n stored
\* chunks, each with total_chunks = n and a chunk_index of its own below n
ReadyComplete(d, n) ==
  /\ Cardinality(ChunksOf(user_chunks, d)) = n
  /\ \A c \in ChunksOf(user_chunks, d) : c.total_chunks = n /\ c.chunk_index \in 0..(n - 1)
  /\ \A c1, c2 \in ChunksOf(user_chunks, d) : c1.chunk_index = c2.chunk_index => c1 = c2

\* C18: a row of user_documents with status 'ready', and the document that
\* processDocument returns, have exactly chunk-count chunks stored, also
\* when storing a chunk has failed.
C18_ReadyImpliesChunks ==
  /\ \A r \in user_documents : r.status = "ready" => ReadyComplete(r.id, r.chunk_count)
  /\ (storeOp.op = "process" /\ storeOp.res = "ready")
       => ReadyComplete(storeOp.doc, storeOp.chunkCount)

\* C19: a reader never sees a chunk without its embedding or an embedding
\* without its chunk, whether it reads between the steps of an import or
\* after a write that failed part-way.
C19_NoTornWrite == {c.id : c \in user_chunks} = user_embeddings

\* C20: buildContext stops before the running estimate exceeds 2048 tokens
\* and never undercounts: the token estimate of the whole returned string
\* (labels, contents and separators) is at most 2048.
C20_ContextWithinBudget ==
  context.done => JoinedTokens(context.texts, context.held) <= MAX_CONTEXT_TOKENS
\* C21: when no chunk meets the threshold, query() does not fail and
\* returns confidence 0, no sources and an answer saying that nothing
\* grounded was found, not a generated answer
C21_NoGroundingAnswer ==
  response.met = 0 =>
    /\ response.status = "ok"
    /\ response.confidence = 0
    /\ response.sources = << >>
    /\ response.answer = "noGrounding"

\* C22: an operation of DatabaseService called before initialize() has
\* completed (never called, failed, or closed since) fails with the
\* not-initialized error, and succeeds once initialize() has completed
C22_NotInitializedFails ==
  dbCall.op = "operation" =>
    IF dbCall.initialized THEN dbCall.res = "ok" ELSE dbCall.res = "NotInitialized"

\* C23: an interaction that stop() was called on while it ran delivers no
\* answer: no onResponse callback and no 'response' event
C23_NoAnswerAfterStop ==
  voiceEvent.type = "response" => ~voiceEvent.cancelled

\* the interactions that are under way
Running == {i \in Interactions : inter[i].pc # "idle"}

\* C25: at most one voice interaction runs at a time, whatever the
\* interleaving of startVoiceInteraction, startStreamingInteraction and stop
C25_SingleInteraction ==
  Cardinality(Running) <= 1

\* C26: isActive() and the store's isProcessing are both true while an
\* interaction runs and both false when none runs
C26_FlagsAgree ==
  /\ pipelineIsProcessing = (Running # {})
  /\ storeIsProcessing = (Running # {})

\* C28: stopRecording succeeds at most once for a recording, and throws
\* 'Not recording' when no recording is active
C28_StopAtMostOnce ==
  /\ stopSuccesses <= 1
  /\ (lastStop.res # "none" /\ ~lastStop.active) => lastStop.res = "NotRecording"

\* whether row c passes the filters of the retrieveChunks call
PassesFilters(c) ==
  /\ (retrieval.filters.given /\ retrieval.filters.pitaka # {})
        => ChunkPitaka(c) \in retrieval.filters.pitaka
  /\ (retrieval.filters.given /\ retrieval.filters.nikaya # {})
        => ChunkNikaya(c) \in retrieval.filters.nikaya

\* C24: retrieveChunks(topK, threshold, filters) draws on the topK * 2
\* candidates of the vector store and returns at most topK entries, each
\* with score >= threshold and passing every supplied filter
C24_TopKThresholdFilters ==
  retrieval.done =>
    /\ Len(retrieval.results) <= retrieval.topK
    /\ Range(retrieval.results) \subseteq
         Range(vectorSearch(retrieval.score, retrieval.topK * 2, retrieval.threshold))
    /\ \A c \in Range(retrieval.results) :
         retrieval.score[c] >= retrieval.threshold /\ PassesFilters(c)

\* C24 witness: a call with filters returned exactly topK entries; a
\* candidate that met the threshold was removed by a filter and another
\* row was below the threshold
C24_Witness ==
  /\ retrieval.done
  /\ retrieval.filters.given
  /\ Len(retrieval.results) = retrieval.topK
  /\ \E c \in Chunks : retrieval.score[c] >= retrieval.threshold /\ ~PassesFilters(c)
  /\ \E c \in Chunks : retrieval.score[c] < retrieval.threshold

\* C27: processDocument is single-flight: while a call is in progress no
\* other call starts (no second document row is created), a rejected call
\* leaves the busy flag set and writes nothing, and the busy flag is set
\* exactly while a call is in progress, so it is clear once the running
\* call has returned or thrown
C27_SingleFlight ==
  /\ [](isProcessing <=> job.pc # "none")
  /\ [][isProcessing => (nextDoc' = nextDoc /\ user_documents' = user_documents)]_vars
  /\ [][storeOp'.res = "busy" =>
          /\ isProcessing /\ isProcessing'
          /\ UNCHANGED <<user_documents, user_chunks, user_embeddings, nextDoc, job>>]_vars

\* C27 witness: a processDocument call was rejected while another call was
\* storing its chunks
C27_Witness ==
  /\ storeOp.op = "process"
  /\ storeOp.res = "busy"
  /\ isProcessing
  /\ job.pc = "store"
  /\ job.i < job.n

\* the calls on a known model that have returned
Returned == {c \in DownloadCalls : downloads[c].pc = "done" /\ downloads[c].m \in MODEL_URLS}

Terminal == {"completed", "error"}

\* the statuses before the last are 'downloading', one or more times,
\* followed by whatever `middle` holds
Ordered(log, middle) ==
  /\ Len(log) >= 2 + Len(middle)
  /\ \A i \in 1..(Len(log) - 1 - Len(middle)) : log[i] = "downloading"
  /\ \A i \in 1..Len(middle) : log[Len(log) - 1 - Len(middle) + i] = middle[i]

C30_HistoriesBounded ==
  /\ Len(readingHistory) <= maxReadingHistory
  /\ \A i, j \in 1..Len(readingHistory) :
        readingHistory[i].suttaId = readingHistory[j].suttaId => i = j
  /\ Len(searchHistory) <= maxSearchHistory
  /\ \A i, j \in 1..Len(searchHistory) : searchHistory[i] = searchHistory[j] => i = j
  /\ lastSearch # 0 => (searchHistory # << >> /\ Head(searchHistory) = lastSearch)
  /\ Len(chatHistory) <= maxChatHistory
  /\ \A i, j \in 1..Len(chatHistory) : i < j => chatHistory[i] > chatHistory[j]
  /\ chatHistory # << >> => Head(chatHistory) = chatClock

\* C30 witness: the three lists are full, more chats were added than the
\* list holds, and the latest search is of a query other than the smallest
C30_Witness ==
  /\ Len(readingHistory) = maxReadingHistory
  /\ Len(searchHistory) = maxSearchHistory
  /\ lastSearch = maxSearchHistory + 1
  /\ Len(chatHistory) = maxChatHistory
  /\ chatClock > maxChatHistory

====
